---- MODULE Spec2Model ----
(***************************************************************************)
(* Model of pprof's driver configuration: the PprofConfig value, the field *)
(* registry built by init(), the get/set accessors, the URL codec          *)
(* (applyURL / makeURL), the current-configuration store guarded by        *)
(* currentMu, and the named-configuration settings file.                   *)
(*                                                                         *)
(* Go strings are TLA+ strings; Chars gives the bytes of every string the  *)
(* model parses or formats, so that strconv.Atoi, strconv.ParseFloat,      *)
(* strconv.ParseBool, fmt.Sprint and v[:1] are computed character by       *)
(* character.  A float64 is the exact decimal [neg, ip, fr] it denotes     *)
(* (sign, integer part, fraction digits without trailing zeros); the       *)
(* strings used have no exponent, Inf or NaN and stay inside the range     *)
(* that fmt.Sprint prints without an exponent.                             *)
(***************************************************************************)
EXTENDS Integers, Sequences, FiniteSets, TLC

VARIABLES
  currentCfg,  \* the package variable currentCfg
  cfg,         \* a caller's own PprofConfig value
  url,         \* the caller's URL
  file,        \* the settings file
  settings,    \* the Configs readSettings returned last
  last,        \* the last call: its arguments, the state before it, its results
  steps,       \* the number of calls made
  mu,          \* currentMu: the goroutine that holds it, or NoOne
  pc,          \* each goroutine's position in the call it is making
  call,        \* each goroutine's call: the function and its arguments
  local,       \* each goroutine's own PprofConfig value
  idx,         \* each goroutine's position in the struct copy it is making
  log          \* the completed calls of the goroutines, in the order they returned

storeVars == <<currentCfg, cfg, url, file, settings, last>>

goVars == <<mu, pc, call, local, idx, log>>

vars == <<currentCfg, cfg, url, file, settings, last, steps, mu, pc, call, local, idx, log>>

-----------------------------------------------------------------------------
(* Strings *)

\* The bytes of each string that is parsed or formatted.
Chars ==
  [s \in {"", "t", "f", "true", "false", "T", "1", "0", "5", "-1", "+5", "5x", "-",
          "0.5", "0.50", "0.005", "0.001", ".", "cum", "flat", "lines",
          "functions", "minimum", "ms", "bogus", "yes", "main", "cpu"} |->
    CASE s = ""          -> <<>>
      [] s = "t"         -> <<"t">>
      [] s = "f"         -> <<"f">>
      [] s = "true"      -> <<"t", "r", "u", "e">>
      [] s = "false"     -> <<"f", "a", "l", "s", "e">>
      [] s = "T"         -> <<"T">>
      [] s = "1"         -> <<"1">>
      [] s = "0"         -> <<"0">>
      [] s = "5"         -> <<"5">>
      [] s = "-1"        -> <<"-", "1">>
      [] s = "+5"        -> <<"+", "5">>
      [] s = "5x"        -> <<"5", "x">>
      [] s = "-"         -> <<"-">>
      [] s = "0.5"       -> <<"0", ".", "5">>
      [] s = "0.50"      -> <<"0", ".", "5", "0">>
      [] s = "0.005"     -> <<"0", ".", "0", "0", "5">>
      [] s = "0.001"     -> <<"0", ".", "0", "0", "1">>
      [] s = "."         -> <<".">>
      [] s = "cum"       -> <<"c", "u", "m">>
      [] s = "flat"      -> <<"f", "l", "a", "t">>
      [] s = "lines"     -> <<"l", "i", "n", "e", "s">>
      [] s = "functions" -> <<"f", "u", "n", "c", "t", "i", "o", "n", "s">>
      [] s = "minimum"   -> <<"m", "i", "n", "i", "m", "u", "m">>
      [] s = "ms"        -> <<"m", "s">>
      [] s = "bogus"     -> <<"b", "o", "g", "u", "s">>
      [] s = "yes"       -> <<"y", "e", "s">>
      [] s = "main"      -> <<"m", "a", "i", "n">>
      [] s = "cpu"       -> <<"c", "p", "u">>]

Strings == DOMAIN Chars

\* The string with the given bytes.
FromChars(cs) == CHOOSE s \in Strings : Chars[s] = cs

Digits == <<"0", "1", "2", "3", "4", "5", "6", "7", "8", "9">>

IsDigit(c) == \E i \in 1..Len(Digits) : Digits[i] = c

DigitVal(c) == (CHOOSE i \in 1..Len(Digits) : Digits[i] = c) - 1

AllDigits(cs) == \A i \in 1..Len(cs) : IsDigit(cs[i])

RECURSIVE DigitsVal(_)
DigitsVal(cs) ==
  IF cs = <<>> THEN 0
  ELSE 10 * DigitsVal(SubSeq(cs, 1, Len(cs) - 1)) + DigitVal(cs[Len(cs)])

RECURSIVE NatChars(_)
NatChars(n) ==
  IF n < 10 THEN <<Digits[n + 1]>>
  ELSE NatChars(n \div 10) \o <<Digits[(n % 10) + 1]>>

\* A result of a parse: a value, or an error.
Ok(v) == [ok |-> TRUE, val |-> v]
Err == [ok |-> FALSE]

\* strconv.Atoi: an optional sign, then one or more decimal digits.
Atoi(s) ==
  LET cs == Chars[s]
      signed == cs # <<>> /\ cs[1] \in {"+", "-"}
      ds == IF signed THEN Tail(cs) ELSE cs
  IN IF ds = <<>> \/ ~AllDigits(ds) THEN Err
     ELSE Ok(IF signed /\ cs[1] = "-" THEN 0 - DigitsVal(ds) ELSE DigitsVal(ds))

\* fmt.Sprint of an int.
SprintInt(n) ==
  FromChars(IF n < 0 THEN <<"-">> \o NatChars(0 - n) ELSE NatChars(n))

RECURSIVE StripZeros(_)
StripZeros(ds) ==
  IF ds # <<>> /\ ds[Len(ds)] = "0" THEN StripZeros(SubSeq(ds, 1, Len(ds) - 1))
  ELSE ds

\* strconv.ParseFloat(s, 64) on decimal literals: an optional sign, digits, an
\* optional point and digits, at least one digit in all.
ParseFloat(s) ==
  LET cs == Chars[s]
      signed == cs # <<>> /\ cs[1] \in {"+", "-"}
      body == IF signed THEN Tail(cs) ELSE cs
      dots == {i \in 1..Len(body) : body[i] = "."}
      dot == IF dots = {} THEN Len(body) + 1 ELSE CHOOSE i \in dots : TRUE
      ip == SubSeq(body, 1, dot - 1)
      fr == SubSeq(body, dot + 1, Len(body))
  IN IF Cardinality(dots) > 1 \/ ~AllDigits(ip) \/ ~AllDigits(fr)
        \/ (ip = <<>> /\ fr = <<>>)
     THEN Err
     ELSE Ok([neg |-> signed /\ cs[1] = "-", ip |-> DigitsVal(ip), fr |-> StripZeros(fr)])

\* fmt.Sprint of a float64.
SprintFloat(x) ==
  FromChars((IF x.neg THEN <<"-">> ELSE <<>>) \o NatChars(x.ip)
            \o (IF x.fr = <<>> THEN <<>> ELSE <<".">> \o x.fr))

\* fmt.Sprint of a bool.
SprintBool(b) == IF b THEN "true" ELSE "false"

\* strconv.ParseBool.
ParseBool(s) ==
  IF s \in {"1", "t", "T", "TRUE", "true", "True"} THEN Ok(TRUE)
  ELSE IF s \in {"0", "f", "F", "FALSE", "false", "False"} THEN Ok(FALSE)
  ELSE Err

\* stringToBool, the driver's own boolean parser, called by set: "t" and "true"
\* are true, "f" and "false" are false, a string that is no boolean is an error.
stringToBool(s) ==
  IF s \in {"true", "t"} THEN Ok(TRUE)
  ELSE IF s \in {"false", "f"} THEN Ok(FALSE)
  ELSE Err

\* v[:1]
FirstByte(s) == FromChars(SubSeq(Chars[s], 1, 1))

-----------------------------------------------------------------------------
(* PprofConfig and the field registry *)

\* The fields of struct PprofConfig in declaration order: Go name, the name
\* part of the json tag, and the Go type.
PprofConfigFields ==
  << [Name |-> "Output",              Tag |-> "-",                    Kind |-> "string"],
     [Name |-> "CallTree",            Tag |-> "call_tree",            Kind |-> "bool"],
     [Name |-> "RelativePercentages", Tag |-> "relative_percentages", Kind |-> "bool"],
     [Name |-> "Unit",                Tag |-> "unit",                 Kind |-> "string"],
     [Name |-> "CompactLabels",       Tag |-> "compact_labels",       Kind |-> "bool"],
     [Name |-> "SourcePath",          Tag |-> "-",                    Kind |-> "string"],
     [Name |-> "TrimPath",            Tag |-> "-",                    Kind |-> "string"],
     [Name |-> "IntelSyntax",         Tag |-> "intel_syntax",         Kind |-> "bool"],
     [Name |-> "Mean",                Tag |-> "mean",                 Kind |-> "bool"],
     [Name |-> "SampleIndex",         Tag |-> "-",                    Kind |-> "string"],
     [Name |-> "DivideBy",            Tag |-> "-",                    Kind |-> "float64"],
     [Name |-> "Normalize",           Tag |-> "normalize",            Kind |-> "bool"],
     [Name |-> "Sort",                Tag |-> "sort",                 Kind |-> "string"],
     [Name |-> "DropNegative",        Tag |-> "drop_negative",        Kind |-> "bool"],
     [Name |-> "NodeCount",           Tag |-> "nodecount",            Kind |-> "int"],
     [Name |-> "NodeFraction",        Tag |-> "nodefraction",         Kind |-> "float64"],
     [Name |-> "EdgeFraction",        Tag |-> "edgefraction",         Kind |-> "float64"],
     [Name |-> "Trim",                Tag |-> "trim",                 Kind |-> "bool"],
     [Name |-> "Focus",               Tag |-> "focus",                Kind |-> "string"],
     [Name |-> "Ignore",              Tag |-> "ignore",               Kind |-> "string"],
     [Name |-> "PruneFrom",           Tag |-> "prune_from",           Kind |-> "string"],
     [Name |-> "Hide",                Tag |-> "hide",                 Kind |-> "string"],
     [Name |-> "Show",                Tag |-> "show",                 Kind |-> "string"],
     [Name |-> "ShowFrom",            Tag |-> "show_from",            Kind |-> "string"],
     [Name |-> "TagFocus",            Tag |-> "tagfocus",             Kind |-> "string"],
     [Name |-> "TagIgnore",           Tag |-> "tagignore",            Kind |-> "string"],
     [Name |-> "TagShow",             Tag |-> "tagshow",              Kind |-> "string"],
     [Name |-> "TagHide",             Tag |-> "taghide",              Kind |-> "string"],
     [Name |-> "NoInlines",           Tag |-> "noinlines",            Kind |-> "bool"],
     [Name |-> "Granularity",         Tag |-> "granularity",          Kind |-> "string"] >>

NumField == Len(PprofConfigFields)

GoNames == {PprofConfigFields[i].Name : i \in 1..NumField}

KindOf(goName) ==
  PprofConfigFields[CHOOSE i \in 1..NumField : PprofConfigFields[i].Name = goName].Kind

\* The zero value of a Go type.
ZeroValue(kind) ==
  CASE kind = "string"  -> ""
    [] kind = "int"     -> 0
    [] kind = "float64" -> [neg |-> FALSE, ip |-> 0, fr |-> <<>>]
    [] kind = "bool"    -> FALSE

\* PprofConfig{}
ZeroConfig == [n \in GoNames |-> ZeroValue(KindOf(n))]

DefaultConfig ==
  [ZeroConfig EXCEPT
     !["Unit"]         = "minimum",
     !["NodeCount"]    = -1,
     !["NodeFraction"] = [neg |-> FALSE, ip |-> 0, fr |-> <<"0", "0", "5">>],
     !["EdgeFraction"] = [neg |-> FALSE, ip |-> 0, fr |-> <<"0", "0", "1">>],
     !["Trim"]         = TRUE,
     !["DivideBy"]     = [neg |-> FALSE, ip |-> 1, fr |-> <<>>],
     !["Sort"]         = "flat",
     !["Granularity"]  = "functions"]

\* init's notSaved map; "" where the map has no entry.
notSaved(goName) ==
  CASE goName = "SampleIndex" -> "sample_index"
    [] goName = "Output"      -> "output"
    [] goName = "SourcePath"  -> "source_path"
    [] goName = "TrimPath"    -> "trim_path"
    [] goName = "DivideBy"    -> "divide_by"
    [] OTHER                  -> ""

\* init's choices map; the empty list where the map has no entry.
choices(name) ==
  CASE name = "sort"        -> <<"cum", "flat">>
    [] name = "granularity" -> <<"functions", "filefunctions", "files", "lines", "addresses">>
    [] OTHER                -> <<>>

\* init's urlparam map; "" where the map has no entry.
urlparam(name) ==
  CASE name = "drop_negative"        -> "dropneg"
    [] name = "call_tree"            -> "calltree"
    [] name = "relative_percentages" -> "rel"
    [] name = "unit"                 -> "unit"
    [] name = "compact_labels"       -> "compact"
    [] name = "intel_syntax"         -> "intel"
    [] name = "nodecount"            -> "n"
    [] name = "nodefraction"         -> "nf"
    [] name = "edgefraction"         -> "ef"
    [] name = "trim"                 -> "trim"
    [] name = "focus"                -> "f"
    [] name = "ignore"               -> "i"
    [] name = "prune_from"           -> "prunefrom"
    [] name = "hide"                 -> "h"
    [] name = "show"                 -> "s"
    [] name = "show_from"            -> "sf"
    [] name = "tagfocus"             -> "tf"
    [] name = "tagignore"            -> "ti"
    [] name = "tagshow"              -> "ts"
    [] name = "taghide"              -> "th"
    [] name = "mean"                 -> "mean"
    [] name = "sample_index"         -> "si"
    [] name = "normalize"            -> "norm"
    [] name = "sort"                 -> "sort"
    [] name = "granularity"          -> "g"
    [] name = "noinlines"            -> "noinlines"
    [] OTHER                         -> ""

\* get returns the value of field f in c, as a string.
get(c, f) ==
  CASE f.kind = "string"  -> c[f.field]
    [] f.kind = "int"     -> SprintInt(c[f.field])
    [] f.kind = "float64" -> SprintFloat(c[f.field])
    [] f.kind = "bool"    -> SprintBool(c[f.field])

\* The configuration name of a struct field, "" when it is not configurable.
ConfigName(sf) == IF sf.Tag = "-" THEN notSaved(sf.Name) ELSE sf.Tag

\* MakeField with the default taken from PprofConfig{} instead of DefaultConfig().
MakeField_ZeroDefault(sf) ==
  LET name == ConfigName(sf)
      f == [name |-> name, urlparam |-> urlparam(name), saved |-> (name = sf.Tag),
            field |-> sf.Name, kind |-> sf.Kind, choices |-> choices(name)]
  IN [name |-> f.name, urlparam |-> f.urlparam, saved |-> f.saved, field |-> f.field,
      kind |-> f.kind, choices |-> f.choices, defaultValue |-> get(ZeroConfig, f)]

\* The configField init builds for struct field sf.
MakeField(sf) ==
  LET name == ConfigName(sf)
      f == [name |-> name, urlparam |-> urlparam(name), saved |-> (name = sf.Tag),
            field |-> sf.Name, kind |-> sf.Kind, choices |-> choices(name)]
  IN [name |-> f.name, urlparam |-> f.urlparam, saved |-> f.saved, field |-> f.field,
      kind |-> f.kind, choices |-> f.choices, defaultValue |-> get(DefaultConfig, f)]

\* configFields after init: one entry per configurable struct field, in
\* declaration order.
RECURSIVE initFields(_)
initFields(n) ==
  IF n = 0 THEN <<>>
  ELSE IF ConfigName(PprofConfigFields[n]) = "" THEN initFields(n - 1)
  ELSE Append(initFields(n - 1), MakeField(PprofConfigFields[n]))

configFields == initFields(NumField)

Range(seq) == {seq[i] : i \in 1..Len(seq)}

\* configFieldMap after init: every field name and every choice, each mapped
\* to the last field that registered it.
configFieldMap ==
  LET keysOf(f) == {f.name} \cup Range(f.choices)
      keys == UNION {keysOf(configFields[i]) : i \in 1..Len(configFields)}
      lastOf(k) == CHOOSE i \in 1..Len(configFields) :
                     /\ k \in keysOf(configFields[i])
                     /\ \A j \in (i + 1)..Len(configFields) : k \notin keysOf(configFields[j])
  IN [k \in keys |-> configFields[lastOf(k)]]

\* Errors.
Nil == [kind |-> "nil"]
InvalidChoice(name, value) == [kind |-> "invalid value", name |-> name, value |-> value]
ParseError(value) == [kind |-> "parse error", value |-> value]
UnknownField(name) == [kind |-> "unknown field", name |-> name]
FieldError(name, e) == [kind |-> "error setting field", name |-> name, cause |-> e]

\* The outcome of parsing value for a field of the given kind.
Parsed(kind, value) ==
  CASE kind = "int"     -> Atoi(value)
    [] kind = "float64" -> ParseFloat(value)
    [] kind = "bool"    -> stringToBool(value)

\* set storing a choice field's value before checking it against the choices.
set_AssignFirst(c, f, value) ==
  IF f.kind = "string" THEN
    IF Len(f.choices) > 0 /\ ~\E i \in 1..Len(f.choices) : f.choices[i] = value
    THEN [cfg |-> [c EXCEPT ![f.field] = value], err |-> InvalidChoice(f.name, value)]
    ELSE [cfg |-> [c EXCEPT ![f.field] = value], err |-> Nil]
  ELSE
    LET r == Parsed(f.kind, value)
    IN IF r.ok THEN [cfg |-> [c EXCEPT ![f.field] = r.val], err |-> Nil]
       ELSE [cfg |-> c, err |-> ParseError(value)]

\* set storing any string in a choice field.
set_NoChoices(c, f, value) ==
  IF f.kind = "string" THEN [cfg |-> [c EXCEPT ![f.field] = value], err |-> Nil]
  ELSE
    LET r == Parsed(f.kind, value)
    IN IF r.ok THEN [cfg |-> [c EXCEPT ![f.field] = r.val], err |-> Nil]
       ELSE [cfg |-> c, err |-> ParseError(value)]

\* set sets the value of field f in c to value: the configuration after the
\* call and the error returned.
set(c, f, value) ==
  IF f.kind = "string" THEN
    IF Len(f.choices) > 0 THEN
      IF \E i \in 1..Len(f.choices) : f.choices[i] = value
      THEN [cfg |-> [c EXCEPT ![f.field] = value], err |-> Nil]
      ELSE [cfg |-> c, err |-> InvalidChoice(f.name, value)]
    ELSE [cfg |-> [c EXCEPT ![f.field] = value], err |-> Nil]
  ELSE
    LET r == Parsed(f.kind, value)
    IN IF r.ok THEN [cfg |-> [c EXCEPT ![f.field] = r.val], err |-> Nil]
       ELSE [cfg |-> c, err |-> ParseError(value)]

-----------------------------------------------------------------------------
(* URLs: a url.URL is its raw query, a list of <<key, value>> pairs *)

\* url.URL.Query: each key with its values in order of appearance.
Query(raw) ==
  [k \in {raw[i][1] : i \in 1..Len(raw)} |->
     LET RECURSIVE vals(_)
         vals(n) == IF n = 0 THEN <<>>
                    ELSE IF raw[n][1] = k THEN Append(vals(n - 1), raw[n][2])
                    ELSE vals(n - 1)
     IN vals(Len(raw))]

\* url.Values.Get: the first value of the key, "" when there is none.
Get(q, k) == IF k \in DOMAIN q /\ q[k] # <<>> THEN q[k][1] ELSE ""

\* url.Values.Add in place of Set: the value is appended to the key's values.
Set_Add(q, k, v) ==
  [x \in DOMAIN q \cup {k} |->
     IF x = k THEN (IF k \in DOMAIN q THEN Append(q[k], v) ELSE <<v>>) ELSE q[x]]

\* url.Values.Set
Set(q, k, v) == [x \in DOMAIN q \cup {k} |-> IF x = k THEN <<v>> ELSE q[x]]

\* Del that leaves the key in place, with the empty value.
Del_SetEmpty(q, k) == [x \in DOMAIN q \cup {k} |-> IF x = k THEN <<"">> ELSE q[x]]

\* url.Values.Del
Del(q, k) == [x \in DOMAIN q \ {k} |-> q[x]]

\* The keys used in queries, in the byte order sort.Strings gives them.
KeyOrder ==
  << "PprofConfig", "calltree", "compact", "dropneg", "ef", "f", "g", "h", "i",
     "intel", "mean", "n", "nf", "noinlines", "norm", "output", "prunefrom", "rel",
     "s", "sf", "si", "sort", "tf", "th", "ti", "trim", "ts", "unit" >>

\* url.Values.Encode: the pairs sorted by key, a key's values in their order.
Encode(q) ==
  LET pairs(k) == IF k \in DOMAIN q THEN [i \in 1..Len(q[k]) |-> <<k, q[k][i]>>] ELSE <<>>
      RECURSIVE enc(_)
      enc(n) == IF n = 0 THEN <<>> ELSE enc(n - 1) \o pairs(KeyOrder[n])
  IN enc(Len(KeyOrder))

\* paramValue looking the field up by its name instead of its URL parameter.
paramValue_ByName(f, params) == Get(params, f.name)

\* The value applyURL reads for field f: its URL parameter's, "" when the
\* field has no URL parameter.
paramValue(f, params) == IF f.urlparam # "" THEN Get(params, f.urlparam) ELSE ""

\* applyURL that gives back the configuration it was called with when a field
\* is rejected.
applyURL_Rollback(c, params) ==
  LET RECURSIVE at(_, _)
      at(n, acc) ==
        IF n > Len(configFields) THEN [cfg |-> acc, err |-> Nil]
        ELSE LET f == configFields[n]
                 value == paramValue(f, params)
             IN IF value = "" THEN at(n + 1, acc)
                ELSE LET r == set(acc, f, value)
                     IN IF r.err # Nil
                        THEN [cfg |-> c, err |-> FieldError(f.name, r.err)]
                        ELSE at(n + 1, r.cfg)
  IN at(1, c)

\* applyURL updates c based on params: the configuration after the call and
\* the error returned.  at(n, acc) runs the loop from field n on.
applyURL(c, params) ==
  LET RECURSIVE at(_, _)
      at(n, acc) ==
        IF n > Len(configFields) THEN [cfg |-> acc, err |-> Nil]
        ELSE LET f == configFields[n]
                 value == paramValue(f, params)
             IN IF value = "" THEN at(n + 1, acc)
                ELSE LET r == set(acc, f, value)
                     IN IF r.err # Nil
                        THEN [cfg |-> r.cfg, err |-> FieldError(f.name, r.err)]
                        ELSE at(n + 1, r.cfg)
  IN at(1, c)

\* makeURL returns the URL based on initialURL that holds c's contents as
\* parameters, and whether a parameter value was changed.
makeURL(c, initialURL) ==
  LET RECURSIVE at(_, _, _)
      at(n, q, changed) ==
        IF n > Len(configFields) THEN [q |-> q, changed |-> changed]
        ELSE LET f == configFields[n]
             IN IF f.urlparam = "" \/ ~f.saved THEN at(n + 1, q, changed)
                ELSE LET v0 == get(c, f)
                         v == IF v0 = f.defaultValue THEN ""
                              ELSE IF f.kind = "bool" THEN FirstByte(v0)
                              ELSE v0
                     IN IF Get(q, f.urlparam) = v THEN at(n + 1, q, changed)
                        ELSE at(n + 1,
                                IF v = "" THEN Del(q, f.urlparam) ELSE Set(q, f.urlparam, v),
                                TRUE)
      r == at(1, Query(initialURL), FALSE)
  IN [url |-> IF r.changed THEN Encode(r.q) ELSE initialURL, changed |-> r.changed]

-----------------------------------------------------------------------------
(* The settings file: JSON with a "configs" list of named configurations *)

\* encoding/json's omitempty test on a field value.
IsEmptyValue(kind, v) ==
  CASE kind = "string"  -> v = ""
    [] kind = "int"     -> v = 0
    [] kind = "float64" -> v.ip = 0 /\ v.fr = <<>>
    [] kind = "bool"    -> v = FALSE

\* The struct fields that json reads and writes: those whose tag is not "-".
JSONFields == {i \in 1..NumField : PprofConfigFields[i].Tag # "-"}

\* json.Marshal of a namedConfig: the name, and each tagged field that is
\* not empty, under its tag.
Marshal(nc) ==
  LET kept == {i \in JSONFields :
                 ~IsEmptyValue(PprofConfigFields[i].Kind, nc.cfg[PprofConfigFields[i].Name])}
      fieldOf(tag) == PprofConfigFields[CHOOSE i \in kept : PprofConfigFields[i].Tag = tag]
  IN [name |-> nc.Name,
      obj |-> [tag \in {PprofConfigFields[i].Tag : i \in kept} |-> nc.cfg[fieldOf(tag).Name]]]

\* json.Unmarshal into a zero namedConfig: absent fields keep the zero value.
Unmarshal(e) ==
  LET tagOf(goName) ==
        PprofConfigFields[CHOOSE i \in 1..NumField : PprofConfigFields[i].Name = goName].Tag
  IN [Name |-> e.name,
      cfg |-> [n \in GoNames |-> IF tagOf(n) \in DOMAIN e.obj THEN e.obj[tagOf(n)]
                                 ELSE ZeroConfig[n]]]

\* resetTransient sets all transient fields of c to their values in current.
resetTransient(c, current) ==
  [c EXCEPT !["Output"]      = current["Output"],
            !["SourcePath"]  = current["SourcePath"],
            !["TrimPath"]    = current["TrimPath"],
            !["DivideBy"]    = current["DivideBy"],
            !["SampleIndex"] = current["SampleIndex"]]

\* readSettings: the Configs read from the file f, none when it does not
\* exist, each with its transient fields reset from the current configuration.
readSettings(f, current) ==
  IF ~f.exists THEN <<>>
  ELSE [i \in 1..Len(f.configs) |->
          LET nc == Unmarshal(f.configs[i])
          IN [Name |-> nc.Name, cfg |-> resetTransient(nc.cfg, current)]]

\* writeSettings: the file that holds the given Configs.
writeSettings(configs) ==
  [exists |-> TRUE, configs |-> [i \in 1..Len(configs) |-> Marshal(configs[i])]]

\* An edit that deletes the entry named name and appends the new one.
setConfigEdit_MoveToEnd(configs, name, c) ==
  LET hits == {i \in 1..Len(configs) : configs[i].Name = name}
  IN IF hits # {}
     THEN LET i == CHOOSE k \in hits : \A j \in hits : k <= j
          IN Append(SubSeq(configs, 1, i - 1) \o SubSeq(configs, i + 1, Len(configs)),
                    [Name |-> name, cfg |-> c])
     ELSE Append(configs, [Name |-> name, cfg |-> c])

\* The function setConfig passes to editSettings: replace the first entry
\* named name, or append a new one.
setConfigEdit(configs, name, c) ==
  LET hits == {i \in 1..Len(configs) : configs[i].Name = name}
  IN IF hits # {}
     THEN LET i == CHOOSE k \in hits : \A j \in hits : k <= j
          IN [configs EXCEPT ![i] = [Name |-> configs[i].Name, cfg |-> c]]
     ELSE Append(configs, [Name |-> name, cfg |-> c])

\* The function removeConfig passes to editSettings: delete the first entry
\* named name; an error when there is none.
removeConfigEdit(configs, name) ==
  LET hits == {i \in 1..Len(configs) : configs[i].Name = name}
  IN IF hits # {}
     THEN LET i == CHOOSE k \in hits : \A j \in hits : k <= j
          IN [configs |-> SubSeq(configs, 1, i - 1) \o SubSeq(configs, i + 1, Len(configs)),
              err |-> Nil]
     ELSE [configs |-> configs, err |-> [kind |-> "not found", name |-> name]]

\* configure selecting a choice whatever boolean the value parses to.
configure_AnyBool(current, name, value) ==
  IF name \notin DOMAIN configFieldMap THEN [cfg |-> current, err |-> UnknownField(name)]
  ELSE LET f == configFieldMap[name]
           v == ParseBool(value)
       IN IF f.name = name THEN set(current, f, value)
          ELSE IF v.ok THEN set(current, f, name)
          ELSE [cfg |-> current, err |-> UnknownField(name)]

\* configure stores name=value into the configuration current.
configure(current, name, value) ==
  IF name \notin DOMAIN configFieldMap THEN [cfg |-> current, err |-> UnknownField(name)]
  ELSE LET f == configFieldMap[name]
           v == ParseBool(value)
       IN IF f.name = name THEN set(current, f, value)
          ELSE IF v.ok /\ v.val THEN set(current, f, name)
          ELSE [cfg |-> current, err |-> UnknownField(name)]

-----------------------------------------------------------------------------
(* Calls *)

MaxSteps == 3

NoCall ==
  [op |-> "none", prev |-> "none", name |-> "", value |-> "", arg |-> DefaultConfig,
   before |-> DefaultConfig, base |-> <<>>, fileBefore |-> [exists |-> FALSE, configs |-> <<>>],
   err |-> Nil, changed |-> FALSE]

\* The record of a call: the given fields, the rest as in NoCall.
Called(r) == [prev |-> last.op] @@ r @@ NoCall

\* The settings file when the program starts: none, or one that was written
\* by hand.
InitialFiles ==
  { [exists |-> FALSE, configs |-> <<>>],
    [exists |-> TRUE,
     configs |-> << [name |-> "c", obj |-> [sort |-> "bogus", nodecount |-> 5]] >>] }

Goroutines == {"g1", "g2"}

NoGoCall ==
  [op |-> "none", name |-> "", value |-> "", arg |-> DefaultConfig, err |-> Nil,
   contended |-> FALSE]

NoOne == "none"

Init ==
  /\ currentCfg = DefaultConfig
  /\ cfg = DefaultConfig
  /\ url = <<>>
  /\ file \in InitialFiles
  /\ settings = <<>>
  /\ last = NoCall
  /\ steps = 0
  /\ mu = NoOne
  /\ pc = [p \in Goroutines |-> "idle"]
  /\ call = [p \in Goroutines |-> NoGoCall]
  /\ local = [p \in Goroutines |-> DefaultConfig]
  /\ idx = [p \in Goroutines |-> 1]
  /\ log = <<>>

\* cfg.set(configFieldMap[name], value)
CallSet(name, value) ==
  /\ steps < MaxSteps
  /\ \E r \in {set(cfg, configFieldMap[name], value)} :
       /\ cfg' = r.cfg
       /\ last' = Called([op |-> "set", name |-> name, value |-> value, before |-> cfg,
                          err |-> r.err])
  /\ steps' = steps + 1
  /\ UNCHANGED <<currentCfg, url, file, settings>>
  /\ UNCHANGED goVars

\* A request with the raw query raw arrives: cfg.applyURL(request.URL.Query())
ApplyURL(raw) ==
  /\ steps < MaxSteps
  /\ \E q \in {Query(raw)} : \E r \in {applyURL(cfg, q)} :
       /\ url' = raw
       /\ cfg' = r.cfg
       /\ last' = Called([op |-> "applyURL", before |-> cfg, base |-> raw, err |-> r.err])
  /\ steps' = steps + 1
  /\ UNCHANGED <<currentCfg, file, settings>>
  /\ UNCHANGED goVars

\* url, changed = cfg.makeURL(u)
MakeURL(u) ==
  /\ steps < MaxSteps
  /\ \E r \in {makeURL(cfg, u)} :
       /\ url' = r.url
       /\ last' = Called([op |-> "makeURL", before |-> cfg, base |-> u, changed |-> r.changed])
  /\ steps' = steps + 1
  /\ UNCHANGED <<currentCfg, cfg, file, settings>>
  /\ UNCHANGED goVars

\* cfg = currentConfig()
CurrentConfig ==
  /\ steps < MaxSteps
  /\ cfg' = currentCfg
  /\ last' = Called([op |-> "currentConfig", before |-> currentCfg])
  /\ steps' = steps + 1
  /\ UNCHANGED <<currentCfg, url, file, settings>>
  /\ UNCHANGED goVars

\* setCurrentConfig(c)
SetCurrentConfig(c) ==
  /\ steps < MaxSteps
  /\ currentCfg' = c
  /\ last' = Called([op |-> "setCurrentConfig", arg |-> c, before |-> currentCfg])
  /\ steps' = steps + 1
  /\ UNCHANGED <<cfg, url, file, settings>>
  /\ UNCHANGED goVars

\* configure(name, value)
Configure(name, value) ==
  /\ steps < MaxSteps
  /\ \E r \in {configure(currentCfg, name, value)} :
       /\ currentCfg' = r.cfg
       /\ last' = Called([op |-> "configure", name |-> name, value |-> value,
                          before |-> currentCfg, err |-> r.err])
  /\ steps' = steps + 1
  /\ UNCHANGED <<cfg, url, file, settings>>
  /\ UNCHANGED goVars

\* setConfig(fname, request): the name is read from the request, the current
\* configuration is copied and updated from the request, and editSettings
\* reads the file, applies the edit and writes the file.
SetConfig(request) ==
  /\ steps < MaxSteps
  /\ \E q \in {Query(request)} : \E name \in {Get(q, "PprofConfig")} :
       IF name = ""
       THEN /\ last' = Called([op |-> "setConfig", name |-> name, base |-> request,
                               before |-> currentCfg, fileBefore |-> file,
                               err |-> [kind |-> "invalid name"]])
            /\ UNCHANGED <<file, settings>>
       ELSE \E r \in {applyURL(currentCfg, q)} :
              IF r.err # Nil
              THEN /\ last' = Called([op |-> "setConfig", name |-> name, base |-> request,
                                      before |-> currentCfg, fileBefore |-> file,
                                      err |-> r.err])
                   /\ UNCHANGED <<file, settings>>
              ELSE \E read \in {readSettings(file, currentCfg)} :
                   \E edited \in {setConfigEdit(read, name, r.cfg)} :
                     /\ settings' = edited
                     /\ file' = writeSettings(edited)
                     /\ last' = Called([op |-> "setConfig", name |-> name, base |-> request,
                                        arg |-> r.cfg, before |-> currentCfg,
                                        fileBefore |-> file, err |-> Nil])
  /\ steps' = steps + 1
  /\ UNCHANGED <<currentCfg, cfg, url>>
  /\ UNCHANGED goVars

\* removeConfig(fname, name): editSettings reads the file, applies the edit
\* and, unless it failed, writes the file.
RemoveConfig(name) ==
  /\ steps < MaxSteps
  /\ \E read \in {readSettings(file, currentCfg)} :
     \E r \in {removeConfigEdit(read, name)} :
       /\ settings' = r.configs
       /\ file' = IF r.err # Nil THEN file ELSE writeSettings(r.configs)
       /\ last' = Called([op |-> "removeConfig", name |-> name, before |-> currentCfg,
                          fileBefore |-> file, err |-> r.err])
  /\ steps' = steps + 1
  /\ UNCHANGED <<currentCfg, cfg, url>>
  /\ UNCHANGED goVars

\* settings, _ = readSettings(fname)
ReadSettings ==
  /\ steps < MaxSteps
  /\ settings' = readSettings(file, currentCfg)
  /\ last' = Called([op |-> "readSettings", before |-> currentCfg, fileBefore |-> file])
  /\ steps' = steps + 1
  /\ UNCHANGED <<currentCfg, cfg, url, file>>
  /\ UNCHANGED goVars

\* The name=value pairs given to configure.
ConfigureInputs ==
  { <<"cum", "true">>, <<"cum", "false">>, <<"cum", "yes">>, <<"lines", "1">>,
    <<"bogus", "true">>, <<"sort", "cum">>, <<"sort", "bogus">>, <<"nodecount", "5">> }

\* The configurations callers build themselves and store.
CallerConfigs == {ZeroConfig, [DefaultConfig EXCEPT !["Sort"] = "cum"]}

\* The raw queries of the requests that are decoded.
Requests == { << <<"sort", "cum">>, <<"n", "5">> >>, << <<"g", "bogus">> >> }

\* The raw queries of the requests that save a configuration.
SaveRequests ==
  { << <<"PprofConfig", "a">> >>,
    << <<"PprofConfig", "b">> >>,
    << <<"n", "5">>, <<"PprofConfig", "a">> >>,
    << <<"PprofConfig", "b">>, <<"sort", "cum">> >>,
    << <<"PprofConfig", "b">>, <<"sort", "bogus">> >>,
    << <<"n", "5">> >> }

ConfigNames == {"a", "c"}

Next ==
  \/ \E in \in ConfigureInputs : Configure(in[1], in[2])
  \/ CurrentConfig
  \/ \E raw \in Requests : ApplyURL(raw)
  \/ \E c \in CallerConfigs \cup {cfg} : SetCurrentConfig(c)
  \/ \E request \in SaveRequests : SetConfig(request)
  \/ \E name \in ConfigNames : RemoveConfig(name)
  \/ ReadSettings

Spec == Init /\ [][Next]_vars

-----------------------------------------------------------------------------
(* The URL codec on a caller's configuration *)

\* The name=value pairs given to set.
SetInputs ==
  { <<"unit", "">>, <<"unit", "ms">>, <<"sort", "cum">>, <<"sort", "bogus">>,
    <<"nodecount", "5">>, <<"nodecount", "5x">>, <<"nodefraction", "0.50">>,
    <<"nodefraction", ".">>, <<"trim", "f">>, <<"trim", "bogus">>,
    <<"sample_index", "cpu">> }

\* The raw queries of the requests that are decoded.
CodecRequests ==
  { << <<"n", "-1">> >>,
    << <<"n", "5">> >>,
    << <<"g", "lines">>, <<"n", "5x">>, <<"unit", "ms">> >>,
    << <<"trim", "bogus">>, <<"sort", "bogus">> >>,
    << <<"si", "cpu">>, <<"output", "main">>, <<"f", "">> >>,
    << <<"n", "5">>, <<"n", "-1">> >>,
    << <<"trim", "f">>, <<"calltree", "t">>, <<"nf", "0.50">>, <<"PprofConfig", "a">> >>,
    << <<"unit", "">>, <<"sort", "flat">> >> }

NextCodec ==
  \/ \E in \in SetInputs : CallSet(in[1], in[2])
  \/ \E raw \in CodecRequests : ApplyURL(raw)
  \/ \E u \in {url, <<>>} : MakeURL(u)

SpecCodec == Init /\ [][NextCodec]_vars

-----------------------------------------------------------------------------
(* Goroutines calling currentConfig, setCurrentConfig and configure.  A
   PprofConfig is copied one struct field at a time. *)

MaxCalls == 3

\* The calls the goroutines make.
GoCalls ==
  { [op |-> "currentConfig"],
    [op |-> "setCurrentConfig",
     arg |-> [DefaultConfig EXCEPT !["Granularity"] = "lines", !["Trim"] = FALSE]],
    [op |-> "configure", name |-> "cum", value |-> "true"],
    [op |-> "configure", name |-> "nodecount", value |-> "5"] }

\* Goroutine p calls a function.
Call(p, c) ==
  /\ steps < MaxCalls
  /\ pc[p] = "idle"
  /\ call' = [call EXCEPT ![p] = c @@ [contended |-> mu # NoOne] @@ NoGoCall]
  /\ pc' = [pc EXCEPT ![p] = "lock"]
  /\ steps' = steps + 1
  /\ UNCHANGED <<storeVars, mu, local, idx, log>>

\* A Lock that does not wait for the mutex to be free.
Lock_NoWait(p) ==
  /\ pc[p] = "lock"
  /\ mu' = p
  /\ pc' = [pc EXCEPT ![p] = "locked"]
  /\ idx' = [idx EXCEPT ![p] = 1]
  /\ UNCHANGED <<storeVars, steps, call, local, log>>

\* currentMu.Lock()
Lock(p) ==
  /\ pc[p] = "lock"
  /\ mu = NoOne
  /\ mu' = p
  /\ pc' = [pc EXCEPT ![p] = "locked"]
  /\ idx' = [idx EXCEPT ![p] = 1]
  /\ UNCHANGED <<storeVars, steps, call, local, log>>

\* return currentCfg: the next field of currentCfg is copied to the caller.
ReturnCurrentCfg(p) ==
  /\ pc[p] = "locked"
  /\ call[p].op = "currentConfig"
  /\ \E n \in {PprofConfigFields[idx[p]].Name} :
       local' = [local EXCEPT ![p][n] = currentCfg[n]]
  /\ idx' = [idx EXCEPT ![p] = idx[p] + 1]
  /\ pc' = [pc EXCEPT ![p] = IF idx[p] = NumField THEN "unlock" ELSE "locked"]
  /\ UNCHANGED <<storeVars, steps, mu, call, log>>

\* currentCfg = cfg: the next field of the argument is copied to currentCfg.
AssignCurrentCfg(p) ==
  /\ pc[p] = "locked"
  /\ call[p].op = "setCurrentConfig"
  /\ \E n \in {PprofConfigFields[idx[p]].Name} :
       currentCfg' = [currentCfg EXCEPT ![n] = call[p].arg[n]]
  /\ idx' = [idx EXCEPT ![p] = idx[p] + 1]
  /\ pc' = [pc EXCEPT ![p] = IF idx[p] = NumField THEN "unlock" ELSE "locked"]
  /\ UNCHANGED <<cfg, url, file, settings, last, steps, mu, call, local, log>>

\* The body of configure: the field is looked up and set in currentCfg.
ConfigureLocked(p) ==
  /\ pc[p] = "locked"
  /\ call[p].op = "configure"
  /\ \E r \in {configure(currentCfg, call[p].name, call[p].value)} :
       /\ currentCfg' = r.cfg
       /\ call' = [call EXCEPT ![p].err = r.err]
  /\ pc' = [pc EXCEPT ![p] = "unlock"]
  /\ UNCHANGED <<cfg, url, file, settings, last, steps, mu, local, idx, log>>

\* The deferred currentMu.Unlock(), and the return.
Unlock(p) ==
  /\ pc[p] = "unlock"
  /\ mu' = NoOne
  /\ log' = Append(log, [proc |-> p, op |-> call[p].op, name |-> call[p].name,
                          value |-> call[p].value, arg |-> call[p].arg,
                          ret |-> local[p], err |-> call[p].err,
                          contended |-> call[p].contended])
  /\ pc' = [pc EXCEPT ![p] = "idle"]
  /\ UNCHANGED <<storeVars, steps, call, local, idx>>

\* Goroutine p changes the configuration that currentConfig returned to it.
MutateLocal(p, name, value) ==
  /\ pc[p] = "idle"
  /\ call[p].op = "currentConfig"
  /\ \E r \in {set(local[p], configFieldMap[name], value)} :
       /\ r.cfg # local[p]
       /\ local' = [local EXCEPT ![p] = r.cfg]
  /\ UNCHANGED <<storeVars, steps, mu, pc, call, idx, log>>

NextConc ==
  \E p \in Goroutines :
    \/ \E c \in GoCalls : Call(p, c)
    \/ Lock(p)
    \/ ReturnCurrentCfg(p)
    \/ AssignCurrentCfg(p)
    \/ ConfigureLocked(p)
    \/ Unlock(p)
    \/ MutateLocal(p, "unit", "ms")

\* The goroutines do not use the settings file.
InitConc == Init /\ ~file.exists

SpecConc == InitConc /\ [][NextConc]_vars

-----------------------------------------------------------------------------
(* Properties of the URL codec, checked under SpecCodec *)

\* The fields makeURL writes: saved, with a URL parameter.
URLFields == {f \in Range(configFields) : f.urlparam # "" /\ f.saved}

ExplicitDefault == << <<"n", "-1">> >>

\* C1 as stated: after decoding ?n=-1, node count is -1 and encoding against
\* the URL that still carries n=-1 returns changed=false and that URL.
C1_AsStated ==
  (last.op = "makeURL" /\ last.prev = "applyURL" /\ last.base = ExplicitDefault)
    => /\ cfg["NodeCount"] = -1
       /\ last.changed = FALSE
       /\ url = last.base

\* C1 amended: decoding ?n=-1 sets node count to -1, the default; encoding
\* that configuration against the URL that still carries n=-1 returns
\* changed=true and a URL from which the parameter n has been deleted.
C1_ExplicitDefault ==
  /\ (last.op = "applyURL" /\ last.base = ExplicitDefault)
       => (last.err = Nil /\ cfg["NodeCount"] = -1)
  /\ (last.op = "makeURL" /\ last.prev = "applyURL" /\ last.base = ExplicitDefault)
       => /\ cfg["NodeCount"] = -1
          /\ last.changed = TRUE
          /\ "n" \notin DOMAIN Query(url)

C1_Witness ==
  last.op = "makeURL" /\ last.prev = "applyURL" /\ last.base = ExplicitDefault

\* C2: makeURL is idempotent: encoding the same configuration against the
\* URL a makeURL call returned reports changed=false and returns that URL.
C2_Idempotent ==
  last.op = "makeURL" => makeURL(cfg, url) = [url |-> url, changed |-> FALSE]

C2_Witness ==
  last.op = "makeURL" /\ last.changed /\ last.base # <<>> /\ url # <<>>

\* The fields whose URL parameter is present and not empty in the raw query.
Present(raw) ==
  {f \in Range(configFields) : f.urlparam # "" /\ Get(Query(raw), f.urlparam) # ""}

\* C3 as stated: applyURL assigns a field only if it is saved, has a URL
\* parameter and the parameter is present and not empty; every other field
\* keeps its value.
C3_AsStated ==
  last.op = "applyURL"
    => \A f \in Range(configFields) :
         (f \notin Present(last.base) \/ ~f.saved) => cfg[f.field] = last.before[f.field]

\* C3 amended: applyURL assigns a field only if it has a URL parameter (every
\* saved field has one, and so does sample_index, which is not saved) and the
\* parameter is present and not empty; every other field, among them output,
\* source_path, trim_path and divide_by, keeps its value, whether applyURL
\* succeeds or fails.
C3_Frame ==
  last.op = "applyURL"
    => \A f \in Range(configFields) :
         f \notin Present(last.base) => cfg[f.field] = last.before[f.field]

C3_Witness ==
  /\ last.op = "applyURL"
  /\ Get(Query(last.base), "output") # ""
  /\ cfg["SampleIndex"] = "cpu"
  /\ last.before["SampleIndex"] # "cpu"
  /\ last.before # DefaultConfig

\* C5: a set that returns an error leaves every field as it was, and set on a
\* field with choices, given a value that is not one of them, returns an error.
C5_SetFailure ==
  last.op = "set"
    => LET f == configFieldMap[last.name]
       IN /\ last.err # Nil => cfg = last.before
          /\ (Len(f.choices) > 0 /\ last.value \notin Range(f.choices))
               => last.err.kind = "invalid value"
          /\ (f.kind = "int" /\ ~Atoi(last.value).ok) => last.err # Nil
          /\ (f.kind = "float64" /\ ~ParseFloat(last.value).ok) => last.err # Nil
          /\ (f.kind = "bool" /\ ~stringToBool(last.value).ok) => last.err # Nil

C5_Witness ==
  /\ last.op = "set"
  /\ last.err.kind = "invalid value"
  /\ last.before # DefaultConfig

\* The positions in configFields of the fields that set rejects for the raw
\* query.
Rejected(raw) ==
  {i \in 1..Len(configFields) :
     /\ configFields[i] \in Present(raw)
     /\ set(DefaultConfig, configFields[i], Get(Query(raw), configFields[i].urlparam)).err # Nil}

\* C7: applyURL stops at the first field, in the order of configFields, that
\* set rejects: the error names that field, every earlier field whose
\* parameter is present and not empty holds the decoded value, and the
\* rejected field and every later field hold their values from before.
C7_FirstError ==
  last.op = "applyURL"
    => LET bad == Rejected(last.base)
           first == CHOOSE i \in bad : \A j \in bad : i <= j
       IN /\ (last.err = Nil) <=> (bad = {})
          /\ bad # {}
               => /\ last.err.kind = "error setting field"
                  /\ last.err.name = configFields[first].name
                  /\ \A i \in 1..Len(configFields) :
                       LET f == configFields[i]
                       IN IF i < first /\ f \in Present(last.base)
                          THEN cfg[f.field]
                                 = set(last.before, f, Get(Query(last.base), f.urlparam)).cfg[f.field]
                          ELSE cfg[f.field] = last.before[f.field]

C7_Witness ==
  /\ last.op = "applyURL"
  /\ last.err # Nil
  /\ last.err.name = "nodecount"
  /\ cfg["Unit"] = "ms" /\ last.before["Unit"] # "ms"
  /\ Get(Query(last.base), "g") = "lines" /\ cfg["Granularity"] = "functions"

\* Decoding the query of the caller's URL into the default configuration
\* gives back cfg on every field makeURL writes.
Restored ==
  LET d == applyURL(DefaultConfig, Query(url))
  IN d.err = Nil /\ \A f \in URLFields : get(d.cfg, f) = get(cfg, f)

\* C10 as stated: for every configuration, decoding the URL that makeURL
\* builds from a URL without parameters restores the configuration.
C10_AsStated ==
  (last.op = "makeURL" /\ last.base = <<>>) => Restored

\* C10 amended: decoding the URL that makeURL builds from a URL without
\* parameters into a default configuration restores every saved field that
\* has a URL parameter, provided no such field with a non-empty default (unit)
\* holds the empty string; an empty unit is encoded as no parameter and
\* decodes to the default.
C10_RoundTrip ==
  (last.op = "makeURL" /\ last.base = <<>>
     /\ \A f \in URLFields : f.defaultValue # "" => get(cfg, f) # "")
    => Restored

C10_Witness ==
  /\ last.op = "makeURL" /\ last.base = <<>>
  /\ cfg["Trim"] = FALSE
  /\ cfg["NodeCount"] = 5
  /\ Len(url) = 2

-----------------------------------------------------------------------------
(* Properties of the current configuration and the settings file, checked
   under Spec *)

\* The fields with declared choices.
ChoiceFields == {f \in Range(configFields) : Len(f.choices) > 0}

\* Every choice field of c holds one of its declared choices.
ChoicesValid(c) == \A f \in ChoiceFields : c[f.field] \in Range(f.choices)

\* The current configuration and the named configurations loaded from the
\* settings file hold declared choices.
StoreValid ==
  /\ ChoicesValid(currentCfg)
  /\ \A i \in 1..Len(settings) : ChoicesValid(settings[i].cfg)

\* The named configurations in the settings file hold declared choices.
FileValid == \A i \in 1..Len(file.configs) : ChoicesValid(Unmarshal(file.configs[i]).cfg)

\* C4 as stated: in every state reachable through configure, applyURL,
\* setCurrentConfig, setConfig and readSettings, every choice field of the
\* current configuration and of the loaded named configurations holds one of
\* its declared choices.
C4_AsStated == StoreValid

\* C4 amended: when the choice fields of the current configuration, of the
\* loaded named configurations and of the configurations in the settings
\* file hold declared choices, they still do after every call, except after a
\* setCurrentConfig whose argument holds an undeclared value in a choice
\* field: setCurrentConfig stores its argument as given.
C4_ChoicesPreserved ==
  [][(StoreValid /\ FileValid
        /\ ~(last'.op = "setCurrentConfig" /\ ~ChoicesValid(last'.arg)))
       => (StoreValid' /\ FileValid')]_vars

\* A caller's valid non-default configuration has been stored while a named
\* configuration with a non-default choice is loaded.
C4_Witness ==
  /\ last.op = "setCurrentConfig"
  /\ ChoicesValid(last.arg)
  /\ currentCfg["Sort"] = "cum"
  /\ last.before["Sort"] = "flat"
  /\ Len(settings) = 1
  /\ settings[1].cfg["Sort"] = "cum"
  /\ StoreValid

\* The names that are a choice of some field without being a field's name.
ChoiceNames ==
  {n \in DOMAIN configFieldMap : \A f \in Range(configFields) : f.name # n}

\* C6: configure with the name of a choice and a value that parses as true
\* sets the owning field to that name and changes nothing else; with any
\* other value it returns the unknown-field error and changes nothing; a
\* name that is neither a field nor a choice returns the unknown-field error
\* and changes nothing.
C6_ChoiceByName ==
  last.op = "configure" =>
    /\ last.name \in ChoiceNames =>
         LET f == CHOOSE g \in ChoiceFields : last.name \in Range(g.choices)
         IN IF ParseBool(last.value) = Ok(TRUE)
            THEN /\ last.err = Nil
                 /\ currentCfg = [last.before EXCEPT ![f.field] = last.name]
            ELSE /\ last.err = UnknownField(last.name)
                 /\ currentCfg = last.before
    /\ last.name \notin DOMAIN configFieldMap =>
         /\ last.err = UnknownField(last.name)
         /\ currentCfg = last.before

\* configure("cum", "true") has changed the sort order of a configuration
\* whose node count had been set before.
C6_Witness ==
  /\ last.op = "configure"
  /\ last.name = "cum"
  /\ last.value = "true"
  /\ last.before["Sort"] = "flat"
  /\ last.before["NodeCount"] = 5
  /\ currentCfg["Sort"] = "cum"

\* C8: a successful setConfig whose name is already in the file replaces the
\* configuration of the first entry with that name, in place: the file has
\* as many entries, every other entry is as before; a name that is not in
\* the file appends exactly one entry at the end.
C8_Upsert ==
  (last.op = "setConfig" /\ last.err = Nil) =>
    LET old == last.fileBefore.configs
        new == file.configs
        hits == {i \in 1..Len(old) : old[i].name = last.name}
        saved == applyURL(last.before, Query(last.base)).cfg
        entry == Marshal([Name |-> last.name, cfg |-> saved])
    IN /\ last.name # ""
       /\ file.exists
       /\ IF hits # {}
          THEN LET i == CHOOSE k \in hits : \A j \in hits : k <= j
               IN /\ Len(new) = Len(old)
                  /\ new[i] = entry
                  /\ \A j \in 1..Len(old) : j # i => new[j] = old[j]
          ELSE new = Append(old, entry)

\* The first of two entries has been overwritten with a different
\* configuration.
C8_Witness ==
  /\ last.op = "setConfig"
  /\ last.err = Nil
  /\ Len(last.fileBefore.configs) = 2
  /\ last.fileBefore.configs[1].name = last.name
  /\ file.configs[1] # last.fileBefore.configs[1]
  /\ file.configs[2] = last.fileBefore.configs[2]

-----------------------------------------------------------------------------
(* Properties of the goroutines, checked under SpecConc *)

RECURSIVE Replay(_)
\* The current configuration after the calls of entries, made one after the
\* other from the default configuration.
Replay(entries) ==
  IF entries = <<>> THEN DefaultConfig
  ELSE LET e == entries[Len(entries)]
           prev == Replay(SubSeq(entries, 1, Len(entries) - 1))
       IN CASE e.op = "setCurrentConfig" -> e.arg
            [] e.op = "configure"        -> configure(prev, e.name, e.value).cfg
            [] e.op = "currentConfig"    -> prev

\* C9: the calls of currentConfig, setCurrentConfig and configure are
\* serialised by the lock.  At most one goroutine is between Lock and Unlock;
\* whenever the lock is free the current configuration is the one that the
\* completed calls produce when made one after the other in the order they
\* returned; every currentConfig returned the whole configuration produced by
\* the calls before it, every configure the error it returns on that
\* configuration; and a goroutine changing the configuration it was returned
\* does not change the current configuration.
C9_Serialized ==
  /\ \A p \in Goroutines : pc[p] \in {"locked", "unlock"} => mu = p
  /\ mu = NoOne => currentCfg = Replay(log)
  /\ \A i \in 1..Len(log) :
       LET prev == Replay(SubSeq(log, 1, i - 1))
       IN /\ log[i].op = "currentConfig" => log[i].ret = prev
          /\ log[i].op = "configure" =>
               log[i].err = configure(prev, log[i].name, log[i].value).err

\* Two goroutines have called configure on different fields at the same
\* time, a currentConfig has returned a configuration with both values, and
\* its caller has since changed its copy.
C9_Witness ==
  /\ Len(log) = 3
  /\ log[1].op = "configure"
  /\ log[2].op = "configure"
  /\ log[1].name # log[2].name
  /\ log[1].proc # log[2].proc
  /\ log[2].contended
  /\ log[3].op = "currentConfig"
  /\ log[3].ret["Sort"] = "cum"
  /\ log[3].ret["NodeCount"] = 5
  /\ local[log[3].proc]["Unit"] = "ms"
  /\ currentCfg["Unit"] = "minimum"
  /\ mu = NoOne

====
